---- MODULE Spec2Model ----
(***************************************************************************)
(* Model of the podcast-system dispatch/poll protocol and feed             *)
(* synchronisation engine: the worker scripts (search, subscribe /         *)
(* unsubscribe, download, update-feeds) and the Android client's           *)
(* trigger-and-poll half (GitHubActionsClient).                            *)
(*                                                                         *)
(* An optional value is a sequence of length 0 (absent) or 1 (present):    *)
(* a file that does not exist is <<>>, a file holding x is <<x>>.          *)
(***************************************************************************)
EXTENDS Integers, Sequences, FiniteSets, TLC

(***************************************************************************)
(* Bounds of the model                                                     *)
(***************************************************************************)
\* number of requests the dispatcher hands out in one behaviour
MaxRequests == 2
\* number of items in one fetched feed
MaxFeedLen == 2
\* latest reading of the workers' clock (Date.now())
MaxClock == 2

(***************************************************************************)
(* Program constants                                                       *)
(***************************************************************************)
\* GitHubActionsClient.pollForResults: "if (attempt > 60)"
MaxAttempts == 60
\* fetch: "if (redirectCount > 10) return reject(new Error('Too many redirects'))"
MaxRedirects == 10

VARIABLES
    \* ---- Result Store and worker (scripts/*.js main) ----
    requests,   \* data/requests/<id>.json : request id -> optional ResultRecord
    pending,    \* dispatched repository_dispatch events not yet run
    issued,     \* number of request ids generated so far
    worker,     \* the running worker invocation: action, requestId, input, pc
    writeLog,   \* durable stores written by the current invocation, in order
    \* ---- Android client (GitHubActionsClient) ----
    pollPc,     \* position of the client's trigger/poll callback chain
    pollReq,    \* request id the client triggered and polls
    attempt,    \* the attempt argument of the current pollForResults call
    reads,      \* Result Store reads issued by the poll so far
    lastAnswer, \* what the most recent Result Store read was answered with
    lastTrigger, \* what became of the trigger call of the client's request
    looper,     \* runnables posted to the main looper, not yet run
    delivered,  \* callbacks already invoked on the caller, in order
    \* ---- durable stores of the sync engine ----
    subscriptions, \* data/subscriptions.json : podcast id -> optional Subscription
    feeds,      \* data/feeds/<id>.json : podcast id -> optional FeedSnapshot
    episodes,   \* data/episodes/<id>/list.json : podcast id -> optional list
    lastUpdate, \* data/last_update.json : optional summary of the last batch
    clock,      \* Date.now()
    \* ---- observation ----
    lastSync,   \* per podcast, its latest successful sync: the operation, the
                \* items it fetched, the list it found and the count it reported
    \* ---- concurrent runs of scripts/subscribe.js ----
    invocations, \* per worker process: its position, its operation, its feed
                \* URL and the registry it has loaded
    \* ---- fetch(url) of scripts/subscribe.js and scripts/update-feeds.js ----
    fetch,      \* the feed fetch under way: its caller, the redirectCount of
                \* the current request, the GETs issued, the latest response,
                \* how it settled and what the caller made of it
    \* ---- a run of scripts/update-feeds.js beside other workers ----
    batch       \* its position and the registry it has loaded

handlerVars == <<requests, pending, issued, worker, writeLog>>
clientVars == <<pollPc, pollReq, attempt, reads, lastAnswer, lastTrigger, looper,
                delivered>>
syncVars == <<subscriptions, feeds, episodes, lastUpdate, clock, lastSync,
              invocations, fetch, batch>>
vars == <<requests, pending, issued, worker, writeLog,
          pollPc, pollReq, attempt, reads, lastAnswer, lastTrigger, looper,
          delivered,
          subscriptions, feeds, episodes, lastUpdate, clock, lastSync,
          invocations, fetch, batch>>

None == <<>>
Some(x) == <<x>>

(***************************************************************************)
(* Worker scripts: one invocation handles one dispatched request.          *)
(***************************************************************************)
RequestIds == 1..MaxRequests
Actions == {"search", "subscribe", "unsubscribe", "download"}
\* the required input of the action (QUERY, FEED_URL, EPISODE_URL) as the
\* worker finds it in its environment
Inputs == {"ok", "missing", "malformed"}
Terminated == {"exit0", "exit1", "crashed"}

IdleWorker == [action |-> "none", requestId |-> 0, input |-> "ok", pc |-> "idle"]

\* the ResultRecord a handler writes on success
SuccessRecord(w) ==
    [success |-> TRUE, requestId |-> w.requestId, action |-> w.action]

\* the ResultRecord a handler's catch block writes
ErrorRecord(w) ==
    [success |-> FALSE, requestId |-> w.requestId, action |-> w.action]

\* fs.writeFileSync(requestPath, ...): the Result Store write
WriteRequest(rec) ==
    /\ requests' = [requests EXCEPT ![rec.requestId] = Some(rec)]
    /\ writeLog' = Append(writeLog, "requests")

At(a, pc) == worker.action = a /\ worker.pc = pc
Goto(pc) == worker' = [worker EXCEPT !.pc = pc]

\* the dispatcher hands {action, payload, requestId} to the trigger transport
Dispatch(a, in) ==
    /\ issued < MaxRequests
    /\ issued' = issued + 1
    /\ pending' = Append(pending,
                         [action |-> a, requestId |-> issued + 1, input |-> in])
    /\ UNCHANGED <<requests, worker, writeLog, clientVars, syncVars>>

\* the trigger transport starts the worker script for the oldest event
Invoke ==
    /\ worker.pc \in Terminated \cup {"idle"}
    /\ pending # <<>>
    /\ worker' = [action |-> Head(pending).action,
                  requestId |-> Head(pending).requestId,
                  input |-> Head(pending).input,
                  pc |-> "start"]
    /\ pending' = Tail(pending)
    /\ writeLog' = <<>>
    /\ UNCHANGED <<requests, issued, clientVars, syncVars>>

(* ---- search (unnamed/part_000 main) ---- *)

\* if (!QUERY) { console.error(...); process.exit(1); }
SearchStart ==
    /\ At("search", "start")
    /\ IF worker.input = "missing" THEN Goto("exit1") ELSE Goto("try")
    /\ UNCHANGED <<requests, pending, issued, writeLog, clientVars, syncVars>>

\* const results = await searchPodcasts(QUERY, LIMIT): resolves or throws
SearchFetch(ok) ==
    /\ At("search", "try")
    /\ IF ok THEN Goto("cache") ELSE Goto("catch")
    /\ UNCHANGED <<requests, pending, issued, writeLog, clientVars, syncVars>>

\* fs.writeFileSync(cachePath, ...): written, or the write throws
SearchCache(ok) ==
    /\ At("search", "cache")
    /\ IF ok
       THEN Goto("request") /\ writeLog' = Append(writeLog, "search")
       ELSE Goto("catch") /\ UNCHANGED writeLog
    /\ UNCHANGED <<requests, pending, issued, clientVars, syncVars>>

\* fs.writeFileSync(requestPath, JSON.stringify(response))
SearchRequest ==
    /\ At("search", "request")
    /\ WriteRequest(SuccessRecord(worker))
    /\ Goto("lookups")
    /\ UNCHANGED <<pending, issued, clientVars, syncVars>>

\* the loop over results that saves data/lookups/<itunesId>.json: nothing to
\* save, saved, or a file system call of the loop throws
SearchLookups(outcome) ==
    /\ At("search", "lookups")
    /\ CASE outcome = "none" -> Goto("exit0") /\ UNCHANGED writeLog
         [] outcome = "saved" ->
                Goto("exit0") /\ writeLog' = Append(writeLog, "lookups")
         [] outcome = "throws" -> Goto("catch") /\ UNCHANGED writeLog
    /\ UNCHANGED <<requests, pending, issued, clientVars, syncVars>>

\* catch (e) { ... writeFileSync(requestPath, errorResponse); process.exit(1) }
SearchCatch ==
    /\ At("search", "catch")
    /\ WriteRequest(ErrorRecord(worker))
    /\ Goto("exit1")
    /\ UNCHANGED <<pending, issued, clientVars, syncVars>>

(* ---- download (unnamed/part_001 main) ---- *)

\* if (!EPISODE_URL) process.exit(1); new URL(EPISODE_URL) runs before the
\* try block, so a malformed URL is an uncaught exception
DownloadStart ==
    /\ At("download", "start")
    /\ CASE worker.input = "missing" -> Goto("exit1")
         [] worker.input = "malformed" -> Goto("crashed")
         [] OTHER -> Goto("try")
    /\ UNCHANGED <<requests, pending, issued, writeLog, clientVars, syncVars>>

\* await downloadFile(EPISODE_URL, tempFile): resolves or rejects
DownloadFetch(ok) ==
    /\ At("download", "try")
    /\ IF ok THEN Goto("upload") ELSE Goto("catch")
    /\ UNCHANGED <<requests, pending, issued, writeLog, clientVars, syncVars>>

\* await uploadToInternetArchive(...): resolves (uploaded or skipped) or rejects
DownloadUpload(ok) ==
    /\ At("download", "upload")
    /\ IF ok THEN Goto("record") ELSE Goto("catch")
    /\ UNCHANGED <<requests, pending, issued, writeLog, clientVars, syncVars>>

\* fs.writeFileSync(recordPath, ...): data/downloads/<episodeId>.json
DownloadRecord(ok) ==
    /\ At("download", "record")
    /\ IF ok
       THEN Goto("request") /\ writeLog' = Append(writeLog, "downloads")
       ELSE Goto("catch") /\ UNCHANGED writeLog
    /\ UNCHANGED <<requests, pending, issued, clientVars, syncVars>>

\* fs.writeFileSync(requestPath, JSON.stringify(record))
DownloadRequest ==
    /\ At("download", "request")
    /\ WriteRequest(SuccessRecord(worker))
    /\ Goto("cleanup")
    /\ UNCHANGED <<pending, issued, clientVars, syncVars>>

\* fs.unlinkSync(tempFile): removed, or the call throws
DownloadCleanup(ok) ==
    /\ At("download", "cleanup")
    /\ IF ok THEN Goto("exit0") ELSE Goto("catch")
    /\ UNCHANGED <<requests, pending, issued, writeLog, clientVars, syncVars>>

\* catch (e) { ... writeFileSync(requestPath, errorRecord); process.exit(1) }
DownloadCatch ==
    /\ At("download", "catch")
    /\ WriteRequest(ErrorRecord(worker))
    /\ Goto("exit1")
    /\ UNCHANGED <<pending, issued, clientVars, syncVars>>

(* ---- subscribe / unsubscribe (scripts/subscribe.js main) ---- *)

\* main creates the data directories and enters the try block
SubscribeStart ==
    /\ worker.action \in {"subscribe", "unsubscribe"}
    /\ worker.pc = "start"
    /\ Goto("try")
    /\ UNCHANGED <<requests, pending, issued, writeLog, clientVars, syncVars>>

\* variant: subscribe() saves the registry before it fetches the feed
SubscribeFetchSavesFirst(ok) ==
    /\ At("subscribe", "try")
    /\ writeLog' = Append(writeLog, "subscriptions")
    /\ IF worker.input = "ok" /\ ok THEN Goto("persist") ELSE Goto("catch")
    /\ UNCHANGED <<requests, pending, issued, clientVars, syncVars>>

\* subscribe() up to the parsed feed: throws without a feed URL, when the
\* fetch rejects (a malformed URL included) or when the response is not ok
SubscribeFetch(ok) ==
    /\ At("subscribe", "try")
    /\ IF worker.input = "ok" /\ ok THEN Goto("persist") ELSE Goto("catch")
    /\ UNCHANGED <<requests, pending, issued, writeLog, clientVars, syncVars>>

\* subscribe() from the registry load to the episode list: the three writes
\* in program order; a failing file system call throws after the first n
SubscribePersist(n) ==
    /\ At("subscribe", "persist")
    /\ writeLog' = writeLog \o SubSeq(<<"subscriptions", "feeds", "episodes">>, 1, n)
    /\ IF n = 3 THEN Goto("request") ELSE Goto("catch")
    /\ UNCHANGED <<requests, pending, issued, clientVars, syncVars>>

\* unsubscribe(): load the registry, delete the entry, save the registry
UnsubscribePersist(ok) ==
    /\ At("unsubscribe", "try")
    /\ IF ok
       THEN Goto("request") /\ writeLog' = Append(writeLog, "subscriptions")
       ELSE Goto("catch") /\ UNCHANGED writeLog
    /\ UNCHANGED <<requests, pending, issued, clientVars, syncVars>>

\* result.requestId = REQUEST_ID; fs.writeFileSync(requestPath, result);
\* console.log('Done!', result)
SubscribeRequest ==
    /\ worker.action \in {"subscribe", "unsubscribe"}
    /\ worker.pc = "request"
    /\ WriteRequest(SuccessRecord(worker))
    /\ Goto("exit0")
    /\ UNCHANGED <<pending, issued, clientVars, syncVars>>

\* catch (e) { ... writeFileSync(requestPath, errorResult); process.exit(1) }
SubscribeCatch ==
    /\ worker.action \in {"subscribe", "unsubscribe"}
    /\ worker.pc = "catch"
    /\ WriteRequest(ErrorRecord(worker))
    /\ Goto("exit1")
    /\ UNCHANGED <<pending, issued, clientVars, syncVars>>

\* one step of the running worker
WorkerStep ==
    \/ SearchStart
    \/ \E ok \in BOOLEAN : SearchFetch(ok)
    \/ \E ok \in BOOLEAN : SearchCache(ok)
    \/ SearchRequest
    \/ \E o \in {"none", "saved", "throws"} : SearchLookups(o)
    \/ SearchCatch
    \/ DownloadStart
    \/ \E ok \in BOOLEAN : DownloadFetch(ok)
    \/ \E ok \in BOOLEAN : DownloadUpload(ok)
    \/ \E ok \in BOOLEAN : DownloadRecord(ok)
    \/ DownloadRequest
    \/ \E ok \in BOOLEAN : DownloadCleanup(ok)
    \/ DownloadCatch
    \/ SubscribeStart
    \/ \E ok \in BOOLEAN : SubscribeFetch(ok)
    \/ \E n \in 0..3 : SubscribePersist(n)
    \/ \E ok \in BOOLEAN : UnsubscribePersist(ok)
    \/ SubscribeRequest
    \/ SubscribeCatch

NextHandlers ==
    \/ \E a \in Actions, in \in Inputs : Dispatch(a, in)
    \/ Invoke
    \/ WorkerStep


(***************************************************************************)
(* Android client: GitHubActionsClient.triggerAction and pollForResults.   *)
(***************************************************************************)
\* responses the trigger transport (POST .../dispatches) can give; unreadable:
\* a status other than 200/204 whose body cannot be read
TriggerOutcomes == {"accepted", "rejected", "failure", "unreadable"}
\* responses a Result Store read (GET .../data/requests/<id>.json) can give;
\* unreadable: a successful status whose body cannot be read
ReadOutcomes == {"found", "notFound", "httpError", "ioFailure", "unreadable"}

TimeoutMessage == "Timeout waiting for results"

\* runOnMainThread(runnable): post the callback to the main looper
Post(cb) == looper' = Append(looper, cb)

\* "if (attempt > 60)": the poll gives up instead of reading
GivesUp(att) == att > MaxAttempts

\* pollForResults(requestId, callback, att): report the timeout, or issue the
\* read of data/requests/<requestId>.json
PollForResults(att) ==
    /\ attempt' = att
    /\ IF GivesUp(att)
       THEN /\ Post(<<"onError", TimeoutMessage>>)
            /\ pollPc' = "done"
            /\ UNCHANGED reads
       ELSE /\ reads' = reads + 1
            /\ pollPc' = "read"
            /\ UNCHANGED looper

\* search / subscribe / downloadEpisode (or any caller of the public
\* triggerAction with another event type): generateRequestId, then
\* triggerAction, which reports a missing token at once and otherwise
\* enqueues the dispatch call
ClientCall(a, in, hasToken) ==
    /\ pollPc = "idle"
    /\ issued < MaxRequests
    /\ issued' = issued + 1
    /\ pollReq' = issued + 1
    /\ IF hasToken
       THEN /\ pollPc' = "trigger"
            /\ pending' = Append(pending,
                   [action |-> a, requestId |-> issued + 1, input |-> in])
            /\ UNCHANGED <<delivered, lastTrigger>>
       ELSE /\ pollPc' = "done"
            /\ delivered' = Append(delivered, <<"onError", "GitHub token not configured">>)
            /\ lastTrigger' = "noToken"
            /\ UNCHANGED pending
    /\ UNCHANGED <<requests, worker, writeLog, attempt, reads, lastAnswer, looper, syncVars>>

\* variant: the poll starts whatever the dispatch call answered
TriggerResponsePollsAnyway(outcome) ==
    /\ pollPc = "trigger"
    /\ lastTrigger' = outcome
    /\ PollForResults(0)
    /\ UNCHANGED <<syncVars, handlerVars, pollReq, lastAnswer, delivered>>

\* the Callback of the dispatch call: onFailure, or onResponse with status
\* 204/200 (start polling at attempt 0) or any other status; there
\* response.body().string() may throw the IOException onResponse declares,
\* which leaves the Callback before anything is posted
TriggerResponse(outcome) ==
    /\ pollPc = "trigger"
    /\ lastTrigger' = outcome
    /\ CASE outcome = "accepted" -> PollForResults(0)
         [] outcome = "rejected" ->
                /\ Post(<<"onError", "HTTP error">>)
                /\ pollPc' = "done"
                /\ UNCHANGED <<attempt, reads>>
         [] outcome = "failure" ->
                /\ Post(<<"onError", "IOException">>)
                /\ pollPc' = "done"
                /\ UNCHANGED <<attempt, reads>>
         [] outcome = "unreadable" ->
                /\ pollPc' = "lost"
                /\ UNCHANGED <<attempt, reads, looper>>
    /\ UNCHANGED <<syncVars, handlerVars, pollReq, lastAnswer, delivered>>

\* what the store can answer to a read: the record only once it is written;
\* not-found also after that (the store is eventually visible)
CanAnswer(outcome) ==
    outcome \in {"found", "unreadable"} => requests[pollReq] # None

\* mutant: a found record is treated as not ready yet
DispositionRetriesFound(outcome) ==
    IF outcome = "httpError" THEN "error" ELSE "retry"

\* mutant: a network failure of the read is reported like an HTTP error
DispositionReportsIoFailure(outcome) ==
    CASE outcome = "found" -> "deliver"
      [] outcome = "notFound" -> "retry"
      [] OTHER -> "error"

\* how the read's Callback disposes of an answer: deliver the body, retry,
\* or report the error; lost: response.body().string() throws and the
\* IOException leaves onResponse
Disposition(outcome) ==
    CASE outcome = "found" -> "deliver"
      [] outcome = "notFound" -> "retry"
      [] outcome = "ioFailure" -> "retry"
      [] outcome = "httpError" -> "error"
      [] outcome = "unreadable" -> "lost"

\* mutant: the poller interprets the body and reports a failure record as
\* the timeout error
OnFoundInterpreted(body) ==
    IF body.success THEN <<"onSuccess", body>> ELSE <<"onError", TimeoutMessage>>

\* response.isSuccessful(): callback.onSuccess(body), whatever the body says
OnFound(body) == <<"onSuccess", body>>

\* the Callback of the read: onFailure and 404 schedule a retry, a
\* successful response posts onSuccess(body), another status posts onError
ReadResponse(outcome) ==
    /\ pollPc = "read"
    /\ CanAnswer(outcome)
    /\ lastAnswer' = outcome
    /\ CASE Disposition(outcome) = "deliver" ->
                /\ Post(OnFound(requests[pollReq][1]))
                /\ pollPc' = "done"
         [] Disposition(outcome) = "retry" ->
                /\ pollPc' = "retry"
                /\ UNCHANGED looper
         [] Disposition(outcome) = "error" ->
                /\ Post(<<"onError", "HTTP error">>)
                /\ pollPc' = "done"
         [] Disposition(outcome) = "lost" ->
                /\ pollPc' = "lost"
                /\ UNCHANGED looper
    /\ UNCHANGED <<syncVars, handlerVars, pollReq, attempt, reads, lastTrigger,
                   delivered>>

\* variant: the delayed runnable reads again without counting the attempt
RetryFiresUncounted ==
    /\ pollPc = "retry"
    /\ pollPc' = "read"
    /\ UNCHANGED <<syncVars, handlerVars, pollReq, attempt, reads, looper,
                   lastAnswer, lastTrigger, delivered>>

\* scheduleRetry's delayed runnable: pollForResults(..., attempt + 1)
RetryFires ==
    /\ pollPc = "retry"
    /\ PollForResults(attempt + 1)
    /\ UNCHANGED <<syncVars, handlerVars, pollReq, lastAnswer, lastTrigger, delivered>>

\* the main looper runs the oldest posted callback
LooperRuns ==
    /\ looper # <<>>
    /\ delivered' = Append(delivered, Head(looper))
    /\ looper' = Tail(looper)
    /\ UNCHANGED <<syncVars, handlerVars, pollPc, pollReq, attempt, reads, lastAnswer,
                   lastTrigger>>

NextPoll ==
    \/ \E a \in Actions, in \in Inputs, t \in BOOLEAN :
          ClientCall(a, in, t)
    \/ \E o \in TriggerOutcomes : TriggerResponse(o)
    \/ \E o \in ReadOutcomes : ReadResponse(o)
    \/ RetryFires
    \/ LooperRuns
    \/ Invoke
    \/ WorkerStep


(***************************************************************************)
(* Feed sync engine: scripts/subscribe.js and scripts/update-feeds.js.     *)
(***************************************************************************)
FeedUrlA == "https://a.example/feed.xml"
FeedUrlB == "https://b.example/feed.xml"
FeedUrls == {FeedUrlA, FeedUrlB}

\* crypto.createHash('md5').update(feedUrl).digest('hex').substring(0, 12),
\* tabulated on the feed URLs of the model (and on the empty FEED_URL)
generatePodcastId(feedUrl) ==
    CASE feedUrl = FeedUrlA -> "828d8909d37f"
      [] feedUrl = FeedUrlB -> "28f86de9ed22"
      [] feedUrl = "" -> "d41d8cd98f00"

\* values of the PODCAST_ID a caller may supply
ExplicitIds == {"p1"}
PodcastIds == {generatePodcastId(u) : u \in FeedUrls \cup {""}} \cup ExplicitIds
\* Object.keys(subscriptions): one fixed enumeration of the keys
IdOrder == <<"828d8909d37f", "28f86de9ed22", "d41d8cd98f00", "p1">>

\* values of the PODCAST_TITLE a caller may supply ("" is unset)
Titles == {"", "My title"}

\* what parseRSS extracts of an item: its guid ("" when the item has none),
\* its enclosure url (items without one are dropped by parseRSS) and the
\* rest of its fields (title, type, size, pubDate, duration) as one value
\* the items of the model: an item, the same item with edited fields, and an
\* item without a guid at the same enclosure url
Items == {[guid |-> "g1", url |-> "u1", content |-> "c1"],
          [guid |-> "g1", url |-> "u1", content |-> "c2"],
          [guid |-> "", url |-> "u1", content |-> "c1"]}
\* the feeds of up to n items; a feed lists no item twice (two items of one
\* identity in a feed differ in their other fields)
Feeds(n) ==
    {f \in UNION {[1..k -> Items] : k \in 0..n} :
        \A i, j \in 1..Len(f) : i # j => f[i] # f[j]}

\* what parseRSS extracts of the channel ("" is a field the feed lacks)
Channels == [title : {"", "Feed title"}, author : {"Author"},
             imageUrl : {"", "image"}, description : {"About"}]
DefaultChannel == [title |-> "Feed title", author |-> "Author",
                   imageUrl |-> "image", description |-> "About"]

EmptyRegistry == [id \in PodcastIds |-> None]
\* JSON.parse(readFileSync(subsPath)) when the file exists, else {}
Registry == IF subscriptions = None THEN EmptyRegistry ELSE subscriptions[1]
\* existing.episodes || [] when list.json exists, else []
StoredEpisodes(id) == IF episodes[id] = None THEN <<>> ELSE episodes[id][1]

\* variant: the time of this subscribe, whatever the registry holds
SubscribedAtNow(registry, podcastId, now) == now

\* subscriptions[podcastId]?.subscribedAt || new Date().toISOString()
SubscribedAt(registry, podcastId, now) ==
    IF registry[podcastId] # None THEN registry[podcastId][1].subscribedAt ELSE now

\* PODCAST_TITLE || channel.title || 'Unknown'
SubscriptionTitle(title, channel) ==
    IF title # "" THEN title
    ELSE IF channel.title # "" THEN channel.title ELSE "Unknown"

\* the id of a stored episode: its guid, else the placeholder `ep-<index>`
\* (subscribe) or `new-<Date.now()>-<index>` (refresh)
EpisodeId(ep, kind, now, index) ==
    IF ep.guid # "" THEN <<"guid", ep.guid, 0, 0>> ELSE <<kind, "", now, index>>

\* episodes.map((ep, index) => ({...ep, id: ep.guid || `ep-${index}`, podcastId}))
SubscribeEpisodes(items, podcastId) ==
    [i \in 1..Len(items) |->
        [guid |-> items[i].guid, url |-> items[i].url, content |-> items[i].content,
         id |-> EpisodeId(items[i], "ep", 0, i - 1),
         podcastId |-> podcastId,
         isNew |-> None]]

\* ep.guid || ep.url
Identity(ep) == IF ep.guid # "" THEN ep.guid ELSE ep.url
Identities(list) == {Identity(list[i]) : i \in 1..Len(list)}

\* new Set(existingEpisodes.map(ep => ep.guid || ep.url))
ExistingGuids(existing) == Identities(existing)

\* variant: an item is looked up by its guid alone
NewEpisodesByGuid(items, existingGuids) ==
    SelectSeq(items, LAMBDA ep : ep.guid \notin existingGuids)

\* variant: an item is looked up by its enclosure url, whatever its guid
NewEpisodesByUrl(items, existingGuids) ==
    SelectSeq(items, LAMBDA ep : ep.url \notin existingGuids)

\* episodes.filter(ep => !existingGuids.has(ep.guid || ep.url))
NewEpisodes(items, existingGuids) ==
    SelectSeq(items, LAMBDA ep : Identity(ep) \notin existingGuids)

\* variant: the saved list is the new episodes alone
MergeNewOnly(new, existing, podcastId, now) ==
    [i \in 1..Len(new) |->
        [guid |-> new[i].guid, url |-> new[i].url, content |-> new[i].content,
         id |-> <<"new", "", now, i - 1>>,
         podcastId |-> podcastId,
         isNew |-> <<TRUE>>]]

\* variant: the stored episodes get a fresh id when the list is saved
MergeRestamps(new, existing, podcastId, now) ==
    [i \in 1..Len(new) |->
        [guid |-> new[i].guid, url |-> new[i].url, content |-> new[i].content,
         id |-> IF new[i].guid # "" THEN <<"guid", new[i].guid, 0, 0>>
                ELSE <<"new", "", now, i - 1>>,
         podcastId |-> podcastId,
         isNew |-> <<TRUE>>]]
    \o [i \in 1..Len(existing) |->
        [existing[i] EXCEPT !.isNew = <<FALSE>>,
                            !.id = <<"new", "", now, Len(new) + i - 1>>]]

\* variant: the new episodes are appended behind the stored ones
MergeAppends(new, existing, podcastId, now) ==
    [i \in 1..Len(existing) |-> [existing[i] EXCEPT !.isNew = <<FALSE>>]]
    \o [i \in 1..Len(new) |->
        [guid |-> new[i].guid, url |-> new[i].url, content |-> new[i].content,
         id |-> IF new[i].guid # "" THEN <<"guid", new[i].guid, 0, 0>>
                ELSE <<"new", "", now, i - 1>>,
         podcastId |-> podcastId,
         isNew |-> <<TRUE>>]]

\* [...newEpisodes.map((ep, i) => ({...ep, id, podcastId, isNew: true})),
\*  ...existingEpisodes.map(ep => ({...ep, isNew: false}))]
MergeEpisodes(new, existing, podcastId, now) ==
    [i \in 1..Len(new) |->
        [guid |-> new[i].guid, url |-> new[i].url, content |-> new[i].content,
         id |-> EpisodeId(new[i], "new", now, i - 1),
         podcastId |-> podcastId,
         isNew |-> Some(TRUE)]]
    \o [i \in 1..Len(existing) |-> [existing[i] EXCEPT !.isNew = Some(FALSE)]]

\* variant: a feed without items is reported as a failed refresh
RefreshResultEmptyIsFailure(new, items) ==
    IF items = <<>>
    THEN [updated |-> FALSE, newEpisodes |-> 0, totalEpisodes |-> 0]
    ELSE [updated |-> TRUE, newEpisodes |-> Len(new), totalEpisodes |-> Len(items)]

\* variant: every fetched item is reported as new
RefreshResultCountsFeed(new, items) ==
    [updated |-> TRUE, newEpisodes |-> Len(items), totalEpisodes |-> Len(items)]

\* return { updated: true, newEpisodes: newEpisodes.length,
\*          totalEpisodes: episodes.length }
RefreshResult(new, items) ==
    [updated |-> TRUE, newEpisodes |-> Len(new), totalEpisodes |-> Len(items)]

\* return { updated: false, error: ... }: the counts are undefined
RefreshFailure == [updated |-> FALSE, newEpisodes |-> 0, totalEpisodes |-> 0]

\* the snapshot subscribe() saves to data/feeds/<id>.json
SubscribeSnapshot(podcastId, channel, items, now) ==
    [podcastId |-> podcastId, channel |-> channel,
     episodeCount |-> Len(items), lastUpdated |-> now]

\* the snapshot updateFeed() saves: {...channel, title: subscription.title,
\* imageUrl: channel.imageUrl || subscription.imageUrl}; the parseRSS of
\* update-feeds.js extracts no channel description
RefreshSnapshot(subscription, channel, items, now) ==
    [podcastId |-> subscription.id,
     channel |-> [title |-> subscription.title,
                  author |-> channel.author,
                  imageUrl |-> IF channel.imageUrl # "" THEN channel.imageUrl
                               ELSE subscription.imageUrl,
                  description |-> ""],
     episodeCount |-> Len(items), lastUpdated |-> now]

\* observation: podcast id has just been synced by operation op, which
\* fetched items and read the stored list prior (subscribe reads none);
\* repeat: op is a refresh
\* that follows a refresh of the same podcast which fetched the same items
Synced(sync, id, op, items, prior) ==
    [sync EXCEPT ![id] = Some(
        [op |-> op, items |-> items, prior |-> prior,
         repeat |-> /\ op = "refresh"
                    /\ @ # None
                    /\ @[1].op = "refresh"
                    /\ @[1].items = items])]

\* subscriptions[podcastId] = {...} on the loaded registry
Subscribed(registry, podcastId, feedUrl, titleEnv, channel, items, now) ==
    [registry EXCEPT ![podcastId] = Some(
        [id |-> podcastId,
         title |-> SubscriptionTitle(titleEnv, channel),
         author |-> channel.author,
         feedUrl |-> feedUrl,
         imageUrl |-> channel.imageUrl,
         description |-> channel.description,
         episodeCount |-> Len(items),
         lastUpdated |-> now,
         subscribedAt |-> SubscribedAt(registry, podcastId, now)])]

\* subscribe() with a feed URL whose fetch succeeds (FEED_URL, PODCAST_ID and
\* PODCAST_TITLE from the environment; channel and items are what parseRSS
\* extracts of the response): registry entry, snapshot, episode list
Subscribe(feedUrl, podcastIdEnv, titleEnv, channel, items) ==
    LET podcastId == IF podcastIdEnv # "" THEN podcastIdEnv
                     ELSE generatePodcastId(feedUrl)
    IN  /\ subscriptions' = Some(Subscribed(Registry, podcastId, feedUrl,
                                             titleEnv, channel, items, clock))
        /\ feeds' = [feeds EXCEPT ![podcastId] =
               Some(SubscribeSnapshot(podcastId, channel, items, clock))]
        /\ episodes' = [episodes EXCEPT ![podcastId] =
               Some(SubscribeEpisodes(items, podcastId))]
        /\ lastSync' = Synced(lastSync, podcastId, "subscribe", items, <<>>)
        /\ UNCHANGED <<lastUpdate, clock, invocations, fetch, handlerVars, clientVars, batch>>

\* variant: unsubscribe also deletes the podcast's snapshot and episode list
UnsubscribePurges(feedUrl, podcastIdEnv) ==
    LET podcastId == IF podcastIdEnv # "" THEN podcastIdEnv
                     ELSE generatePodcastId(feedUrl)
    IN  /\ subscriptions' = Some([Registry EXCEPT ![podcastId] = None])
        /\ feeds' = [feeds EXCEPT ![podcastId] = None]
        /\ episodes' = [episodes EXCEPT ![podcastId] = None]
        /\ UNCHANGED <<lastUpdate, clock, lastSync, invocations, fetch,
                       handlerVars, clientVars, batch>>

\* unsubscribe(): delete the registry entry and save the registry
Unsubscribe(feedUrl, podcastIdEnv) ==
    LET podcastId == IF podcastIdEnv # "" THEN podcastIdEnv
                     ELSE generatePodcastId(feedUrl)
    IN  /\ subscriptions' = Some([Registry EXCEPT ![podcastId] = None])
        /\ UNCHANGED <<feeds, episodes, lastUpdate, clock, lastSync, invocations,
                       fetch, handlerVars, clientVars, batch>>

\* variant: unsubscribing a podcast that is not subscribed is an error
UnsubscribeResultNotFound(registry, podcastId) ==
    [success |-> registry[podcastId] # None, action |-> "unsubscribe",
     podcastId |-> podcastId,
     title |-> IF registry[podcastId] # None THEN registry[podcastId][1].title
               ELSE "Unknown"]

\* return { success: true, action: 'unsubscribe', podcastId, title } with
\* title = subscriptions[podcastId]?.title || 'Unknown'
UnsubscribeResult(registry, podcastId) ==
    [success |-> TRUE, action |-> "unsubscribe", podcastId |-> podcastId,
     title |-> IF registry[podcastId] # None THEN registry[podcastId][1].title
               ELSE "Unknown"]

\* main with ACTION = 'unsubscribe' for the next request id, no file system
\* call failing: unsubscribe() saves the registry without the entry, then
\* main writes the returned result, with its requestId, to the Result Store
UnsubscribeMain(feedUrl, podcastIdEnv) ==
    LET podcastId == IF podcastIdEnv # "" THEN podcastIdEnv
                     ELSE generatePodcastId(feedUrl)
        result == UnsubscribeResult(Registry, podcastId)
    IN  /\ issued < MaxRequests
        /\ issued' = issued + 1
        /\ subscriptions' = Some([Registry EXCEPT ![podcastId] = None])
        /\ requests' = [requests EXCEPT ![issued + 1] = Some(
               [success |-> result.success, action |-> result.action,
                podcastId |-> result.podcastId, title |-> result.title,
                requestId |-> issued + 1])]
        /\ UNCHANGED <<feeds, episodes, lastUpdate, clock, lastSync, invocations,
                       fetch, pending, worker, writeLog, clientVars, batch>>

\* one iteration of main's loop on the stores st: updateFeed(subscription),
\* whose fetch fails (fetched = None) or yields a channel and items, then the
\* update of the loaded subscription record
LoopStep(st, id, fetched, now) ==
    LET subscription == st.subs[id][1]
        existing == IF st.episodes[subscription.id] = None THEN <<>>
                    ELSE st.episodes[subscription.id][1]
    IN  IF fetched = None
        THEN [st EXCEPT
                !.results[id] = Some(RefreshFailure),
                !.subs[id] = Some([subscription EXCEPT !.lastUpdated = now])]
        ELSE LET channel == fetched[1].channel
                 items == fetched[1].items
                 new == NewEpisodes(items, ExistingGuids(existing))
                 result == RefreshResult(new, items)
             IN  [st EXCEPT
                    !.episodes[subscription.id] =
                        IF Len(new) > 0
                        THEN Some(MergeEpisodes(new, existing, subscription.id, now))
                        ELSE @,
                    !.feeds[subscription.id] =
                        Some(RefreshSnapshot(subscription, channel, items, now)),
                    !.results[id] = Some(result),
                    !.subs[id] = Some([subscription EXCEPT
                        !.lastUpdated = now,
                        !.episodeCount = IF result.totalEpisodes # 0
                                         THEN result.totalEpisodes ELSE @]),
                    !.sync = Synced(@, subscription.id, "refresh", items,
                                    existing)]

\* for (const id of podcastIds) { ... }
RECURSIVE RunLoop(_, _, _, _)
RunLoop(st, todo, fetches, now) ==
    IF todo = <<>> THEN st
    ELSE RunLoop(LoopStep(st, Head(todo), fetches[Head(todo)], now),
                 Tail(todo), fetches, now)

\* update-feeds main: return when subscriptions.json does not exist; else
\* load it, refresh every subscription in turn (fetches: what each fetch
\* yields), save the loaded registry and the update summary
UpdateFeeds(fetches) ==
    /\ subscriptions # None
    /\ LET st == RunLoop([subs |-> Registry, feeds |-> feeds, episodes |-> episodes,
                          results |-> [id \in PodcastIds |-> None],
                          sync |-> lastSync],
                         SelectSeq(IdOrder, LAMBDA id : Registry[id] # None),
                         fetches, clock)
       IN  /\ subscriptions' = Some(st.subs)
           /\ feeds' = st.feeds
           /\ episodes' = st.episodes
           /\ lastUpdate' = Some([timestamp |-> clock, results |-> st.results])
           /\ lastSync' = st.sync
    /\ UNCHANGED <<clock, invocations, fetch, handlerVars, clientVars, batch>>

\* the feed of the registry: one item
SmallFeeds == {<<[guid |-> "g1", url |-> "u1", content |-> "c1"]>>}

\* ---- two worker processes running scripts/subscribe.js at once ----
Procs == {1, 2}
IdleInvocation == [pc |-> "idle", op |-> "none", feedUrl |-> "", titleEnv |-> "",
                   loaded |-> EmptyRegistry]

\* process p runs subscribe() or unsubscribe() up to and including its read
\* of data/subscriptions.json (for subscribe, after a fetch that succeeded)
LoadSubscriptions(p, op, feedUrl, titleEnv) ==
    /\ invocations[p].pc = "idle"
    /\ invocations' = [invocations EXCEPT ![p] =
           [pc |-> "loaded", op |-> op, feedUrl |-> feedUrl,
            titleEnv |-> titleEnv, loaded |-> Registry]]
    /\ UNCHANGED <<subscriptions, feeds, episodes, lastUpdate, clock, lastSync,
                   fetch, handlerVars, clientVars, batch>>

\* process p, in subscribe(), sets its entry in the registry it loaded and
\* saves the registry, then the snapshot and the episode list of its podcast
SaveSubscribed(p) ==
    LET inv == invocations[p]
        podcastId == generatePodcastId(inv.feedUrl)
        items == CHOOSE f \in SmallFeeds : TRUE
    IN  /\ inv.pc = "loaded"
        /\ inv.op = "subscribe"
        /\ subscriptions' = Some(Subscribed(inv.loaded, podcastId, inv.feedUrl,
                                             inv.titleEnv, DefaultChannel, items, clock))
        /\ feeds' = [feeds EXCEPT ![podcastId] =
               Some(SubscribeSnapshot(podcastId, DefaultChannel, items, clock))]
        /\ episodes' = [episodes EXCEPT ![podcastId] =
               Some(SubscribeEpisodes(items, podcastId))]
        /\ lastSync' = Synced(lastSync, podcastId, "subscribe", items, <<>>)
        /\ invocations' = [invocations EXCEPT ![p].pc = "done"]
        /\ UNCHANGED <<lastUpdate, clock, fetch, handlerVars, clientVars, batch>>

\* process p, in unsubscribe(), deletes its entry from the registry it loaded
\* and saves the registry
SaveUnsubscribed(p) ==
    LET inv == invocations[p]
        podcastId == generatePodcastId(inv.feedUrl)
    IN  /\ inv.pc = "loaded"
        /\ inv.op = "unsubscribe"
        /\ subscriptions' = Some([inv.loaded EXCEPT ![podcastId] = None])
        /\ invocations' = [invocations EXCEPT ![p].pc = "done"]
        /\ UNCHANGED <<feeds, episodes, lastUpdate, clock, lastSync, fetch,
                       handlerVars, clientVars, batch>>

\* ---- update-feeds main running while other workers run ----
IdleBatch == [pc |-> "idle", loaded |-> EmptyRegistry]

\* update-feeds main up to and including its read of data/subscriptions.json
\* (it returns at once when the file does not exist)
BatchLoad ==
    /\ batch.pc = "idle"
    /\ subscriptions # None
    /\ batch' = [pc |-> "loaded", loaded |-> Registry]
    /\ UNCHANGED <<subscriptions, feeds, episodes, lastUpdate, clock, lastSync,
                   invocations, fetch, handlerVars, clientVars>>

\* the rest of update-feeds main: the loop over the keys of the registry it
\* loaded, then the write of that registry object and of the update summary
BatchSave(fetches) ==
    /\ batch.pc = "loaded"
    /\ LET st == RunLoop([subs |-> batch.loaded, feeds |-> feeds,
                          episodes |-> episodes,
                          results |-> [id \in PodcastIds |-> None],
                          sync |-> lastSync],
                         SelectSeq(IdOrder, LAMBDA id : batch.loaded[id] # None),
                         fetches, clock)
       IN  /\ subscriptions' = Some(st.subs)
           /\ feeds' = st.feeds
           /\ episodes' = st.episodes
           /\ lastUpdate' = Some([timestamp |-> clock, results |-> st.results])
           /\ lastSync' = st.sync
    /\ batch' = [batch EXCEPT !.pc = "done"]
    /\ UNCHANGED <<clock, invocations, fetch, handlerVars, clientVars>>

\* time passes
Tick ==
    /\ clock < MaxClock
    /\ clock' = clock + 1
    /\ UNCHANGED <<subscriptions, feeds, episodes, lastUpdate, lastSync,
                   invocations, fetch, handlerVars, clientVars, batch>>

(* ---- fetch(url): the feed fetch of subscribe() and updateFeed() ---- *)

\* status codes a response can carry: one per class the fetch tells apart
Statuses == {200, 302, 404, 500}
FetchCallers == {"subscribe", "refresh"}

IdleFetch == [pc |-> "idle", caller |-> "none", redirectCount |-> 0, gets |-> 0,
              status |-> 0, location |-> FALSE, ok |-> FALSE, error |-> "",
              outcome |-> "none", reported |-> 0]

\* variant: the tenth redirect is already one too many
TooManyRedirectsAtTen(redirectCount) == redirectCount >= MaxRedirects

\* if (redirectCount > 10) return reject(new Error('Too many redirects'))
TooManyRedirects(redirectCount) == redirectCount > MaxRedirects

\* res.statusCode >= 300 && res.statusCode < 400 && res.headers.location
IsRedirect(status, location) == status >= 300 /\ status < 400 /\ location

\* request(currentUrl, redirectCount) on the fetch f: reject, or issue the GET
Request(f, redirectCount) ==
    IF TooManyRedirects(redirectCount)
    THEN [f EXCEPT !.pc = "rejected", !.redirectCount = redirectCount,
                   !.error = "Too many redirects"]
    ELSE [f EXCEPT !.pc = "get", !.redirectCount = redirectCount,
                   !.gets = @ + 1]

\* const response = await fetch(FEED_URL) / fetch(subscription.feedUrl):
\* the Promise is created and request(url) runs
FetchCall(caller) ==
    /\ fetch.pc \in {"idle", "handled"}
    /\ fetch' = Request([IdleFetch EXCEPT !.caller = caller], 0)
    /\ UNCHANGED <<subscriptions, feeds, episodes, lastUpdate, clock, lastSync,
                   invocations, handlerVars, clientVars, batch>>

\* the response callback of protocol.get: follow the redirect, or resolve
\* {ok: res.statusCode < 400, status: res.statusCode, text: data}
FetchResponse(status, location) ==
    /\ fetch.pc = "get"
    /\ LET seen == [fetch EXCEPT !.status = status, !.location = location]
       IN  fetch' = IF IsRedirect(status, location)
                    THEN Request(seen, fetch.redirectCount + 1)
                    ELSE [seen EXCEPT !.pc = "resolved", !.ok = status < 400]
    /\ UNCHANGED <<subscriptions, feeds, episodes, lastUpdate, clock, lastSync,
                   invocations, handlerVars, clientVars, batch>>

\* .on('error', reject): the GET fails at transport level
FetchError ==
    /\ fetch.pc = "get"
    /\ fetch' = [fetch EXCEPT !.pc = "rejected", !.error = "network"]
    /\ UNCHANGED <<subscriptions, feeds, episodes, lastUpdate, clock, lastSync,
                   invocations, handlerVars, clientVars, batch>>

\* what the caller makes of the settled fetch: a rejection throws (subscribe)
\* or is caught as {updated: false, error} (refresh); "if (!response.ok)"
\* throws / returns {updated: false, error: `HTTP ${status}`}; otherwise
\* parseRSS(response.text)
FetchHandled ==
    /\ fetch.pc \in {"resolved", "rejected"}
    /\ fetch' = IF fetch.pc = "resolved" /\ fetch.ok
                THEN [fetch EXCEPT !.pc = "handled", !.outcome = "parsed"]
                ELSE [fetch EXCEPT !.pc = "handled", !.outcome = "failed",
                         !.reported = IF fetch.pc = "resolved" THEN fetch.status ELSE 0]
    /\ UNCHANGED <<subscriptions, feeds, episodes, lastUpdate, clock, lastSync,
                   invocations, handlerVars, clientVars, batch>>

(***************************************************************************)
(* Specifications                                                          *)
(***************************************************************************)
Init ==
    /\ requests = [r \in RequestIds |-> None]
    /\ pending = <<>>
    /\ issued = 0
    /\ worker = IdleWorker
    /\ writeLog = <<>>
    /\ pollPc = "idle"
    /\ pollReq = 0
    /\ attempt = 0
    /\ reads = 0
    /\ lastAnswer = "none"
    /\ lastTrigger = "none"
    /\ looper = <<>>
    /\ delivered = <<>>
    /\ subscriptions = None
    /\ feeds = [id \in PodcastIds |-> None]
    /\ episodes = [id \in PodcastIds |-> None]
    /\ lastUpdate = None
    /\ clock = 0
    /\ lastSync = [id \in PodcastIds |-> None]
    /\ invocations = [p \in Procs |-> IdleInvocation]
    /\ fetch = IdleFetch
    /\ batch = IdleBatch

\* the worker handlers, one invocation after the other
SpecHandlers == Init /\ [][NextHandlers]_vars

\* one client call, its trigger, its poll and the worker it starts
SpecPoll == Init /\ [][NextPoll]_vars

\* the poll when every enqueued call is answered (the HTTP client's
\* timeouts), every delayed retry fires and the main looper runs what is
\* posted to it
SpecPollFair ==
    /\ SpecPoll
    /\ WF_vars(\E o \in ReadOutcomes : ReadResponse(o))
    /\ WF_vars(RetryFires)
    /\ WF_vars(LooperRuns)

\* what one fetch can yield: a failure, or the channel and items of a feed
Fetches(channels, feedSet) ==
    {None} \cup {Some([channel |-> c, items |-> f]) : c \in channels, f \in feedSet}

\* one podcast and every feed of up to MaxFeedLen items: the episode ledger
NextSync ==
    \/ \E items \in Feeds(MaxFeedLen) :
          Subscribe(FeedUrlA, "", "", DefaultChannel, items)
    \/ \E f \in Fetches({DefaultChannel}, Feeds(MaxFeedLen)) :
          UpdateFeeds([id \in PodcastIds |-> f])

Spec == Init /\ [][NextSync]_vars

\* subscribe and unsubscribe of two feed URLs, with and without an explicit
\* podcast id and title, as time passes: the subscription registry
NextRegistry ==
    \/ \E feedUrl \in FeedUrls, podcastIdEnv \in ExplicitIds \cup {""},
          titleEnv \in Titles, items \in SmallFeeds :
          Subscribe(feedUrl, podcastIdEnv, titleEnv, DefaultChannel, items)
    \/ \E feedUrl \in FeedUrls, podcastIdEnv \in ExplicitIds \cup {""} :
          Unsubscribe(feedUrl, podcastIdEnv)
    \/ Tick

SpecRegistry == Init /\ [][NextRegistry]_vars

\* the feeds of the batch: no item, or an item and an item without guid
BatchFeeds == {<<>>,
               <<[guid |-> "g1", url |-> "u1", content |-> "c1"],
                 [guid |-> "", url |-> "u1", content |-> "c1"]>>}
\* a fetch that succeeds and extracts no item
EmptyFetch == Some([channel |-> DefaultChannel, items |-> <<>>])
BatchFetches == Fetches({DefaultChannel}, BatchFeeds)

\* two podcasts and the batch refresh, each fetch of a batch failing or
\* yielding a feed of its own
NextBatch ==
    \/ \E feedUrl \in FeedUrls, items \in BatchFeeds :
          Subscribe(feedUrl, "", "", DefaultChannel, items)
    \/ \E feedUrl \in FeedUrls : Unsubscribe(feedUrl, "")
    \/ \E fa, fb \in BatchFetches :
          UpdateFeeds([id \in PodcastIds |->
                          IF id = generatePodcastId(FeedUrlA) THEN fa ELSE fb])

SpecBatch == Init /\ [][NextBatch]_vars

\* two podcasts subscribed and refreshed in batches as time passes, each
\* fetch of a batch failing or yielding the feed
NextBatchClock ==
    \/ \E feedUrl \in FeedUrls, items \in SmallFeeds :
          Subscribe(feedUrl, "", "", DefaultChannel, items)
    \/ \E fa, fb \in Fetches({DefaultChannel}, SmallFeeds) :
          UpdateFeeds([id \in PodcastIds |->
                          IF id = generatePodcastId(FeedUrlA) THEN fa ELSE fb])
    \/ Tick

SpecBatchClock == Init /\ [][NextBatchClock]_vars

\* one podcast, subscribed with and without PODCAST_TITLE and refreshed, the
\* feed's channel carrying or lacking its title and image: the snapshots
NextSnapshot ==
    \/ \E titleEnv \in Titles, channel \in Channels, items \in SmallFeeds :
          Subscribe(FeedUrlA, "", titleEnv, channel, items)
    \/ \E f \in Fetches(Channels, SmallFeeds) :
          UpdateFeeds([id \in PodcastIds |-> f])
    \/ Tick

SpecSnapshot == Init /\ [][NextSnapshot]_vars

\* subscribe and unsubscribe requests for two feed URLs, with and without an
\* explicit podcast id, each unsubscribe reporting to the Result Store
NextUnsubscribe ==
    \/ \E feedUrl \in FeedUrls, titleEnv \in Titles, items \in SmallFeeds :
          Subscribe(feedUrl, "", titleEnv, DefaultChannel, items)
    \/ \E feedUrl \in FeedUrls, podcastIdEnv \in ExplicitIds \cup {""} :
          UnsubscribeMain(feedUrl, podcastIdEnv)

SpecUnsubscribe == Init /\ [][NextUnsubscribe]_vars

\* one feed fetch after the other, the server answering each GET with any
\* status, with or without a Location header, or not at all
NextFetch ==
    \/ \E caller \in FetchCallers : FetchCall(caller)
    \/ \E status \in Statuses, location \in BOOLEAN : FetchResponse(status, location)
    \/ FetchError
    \/ FetchHandled

SpecFetch == Init /\ [][NextFetch]_vars

\* two processes, each running one subscribe or unsubscribe, their registry
\* reads and writes interleaved in every order
NextConcurrent ==
    \/ \E p \in Procs, op \in {"subscribe", "unsubscribe"}, feedUrl \in FeedUrls,
          titleEnv \in Titles :
          LoadSubscriptions(p, op, feedUrl, titleEnv)
    \/ \E p \in Procs : SaveSubscribed(p)
    \/ \E p \in Procs : SaveUnsubscribed(p)

SpecConcurrent == Init /\ [][NextConcurrent]_vars

\* one run of update-feeds beside two processes that each run one subscribe
\* or unsubscribe, the registry reads and writes interleaved in every order
NextBatchRace ==
    \/ \E p \in Procs, op \in {"subscribe", "unsubscribe"}, feedUrl \in FeedUrls :
          LoadSubscriptions(p, op, feedUrl, "")
    \/ \E p \in Procs : SaveSubscribed(p)
    \/ \E p \in Procs : SaveUnsubscribed(p)
    \/ BatchLoad
    \/ \E f \in Fetches({DefaultChannel}, SmallFeeds) :
          BatchSave([id \in PodcastIds |-> f])

SpecBatchRace == Init /\ [][NextBatchRace]_vars

(***************************************************************************)
(* Claims about the worker handlers and the Result Store                   *)
(***************************************************************************)

\* C1: when a worker invocation for request id R has terminated (success,
\* failure, or missing required input), the Result Store holds a
\* ResultRecord at key R.
C1_ResultWrittenOnTermination ==
    worker.pc \in Terminated => requests[worker.requestId] # None

\* C2: a ResultRecord, once stored for a request id, never changes: no later
\* step writes that key with a different record.
C2_RecordNeverChanges ==
    [][\A r \in RequestIds : requests[r] # None => requests'[r] = requests[r]]_vars

\* C15: a subscribe without a feed URL, or whose fetch fails, writes no
\* store before it fails; its failure is followed by the write of a
\* ResultRecord with success false and the end of the invocation, with no
\* further fetch; the registry, the snapshots and the episode lists are as
\* they were before the invocation.
C15_FailedSubscribeWritesOnlyTheResult ==
    /\ [][(At("subscribe", "try") /\ worker'.pc = "catch") =>
            /\ writeLog = <<>>
            /\ UNCHANGED <<writeLog, requests, subscriptions, feeds, episodes>>]_vars
    /\ [][(At("subscribe", "catch") /\ worker' # worker) =>
            /\ worker'.pc = "exit1"
            /\ requests'[worker.requestId] = Some(ErrorRecord(worker))
            /\ writeLog' = Append(writeLog, "requests")
            /\ UNCHANGED <<subscriptions, feeds, episodes>>]_vars
    /\ [](((worker.action = "subscribe" /\ worker.input # "ok"
              /\ worker.pc \in Terminated)) =>
            /\ worker.pc = "exit1"
            /\ writeLog = <<"requests">>
            /\ requests[worker.requestId] = Some(ErrorRecord(worker)))

\* C15 witness: a subscribe without a feed URL has ended; the failure record
\* is the only write of the invocation.
C15_Witness ==
    /\ worker.action = "subscribe"
    /\ worker.input = "missing"
    /\ worker.pc = "exit1"
    /\ writeLog = <<"requests">>
    /\ ~requests[worker.requestId][1].success

\* C22: in every handler invocation the write of the ResultRecord is the last
\* write to a durable store: no write to the registry, the snapshots, the
\* episode lists, the search cache, the lookup files or the download records
\* follows the write to data/requests/<requestId>.json.
C22_ResultWriteIsTheLastWrite ==
    \A i, j \in 1..Len(writeLog) :
        (writeLog[i] = "requests" /\ i < j) => writeLog[j] = "requests"

(***************************************************************************)
(* Claims about the client's poll                                          *)
(***************************************************************************)
\* the callbacks the poll has handed to the caller, run or still posted
Callbacks == delivered \o looper
TimedOut == \E i \in 1..Len(Callbacks) : Callbacks[i] = <<"onError", TimeoutMessage>>
\* the step is the Callback of a Result Store read
IsReadResponse == pollPc = "read" /\ pollPc' # "read"

\* C3: a poll whose record never becomes readable reports Timeout after
\* exactly MaxAttempts (60) reads of the Result Store.
C3_TimeoutAfterExactlyMaxAttemptsReads ==
    TimedOut => reads = MaxAttempts

\* C4: when a read finds the record, the poll hands exactly the body the
\* store returned to onSuccess (whatever its success field), and from then
\* on issues no read and schedules no retry.
C4_FoundIsDeliveredAndPollStops ==
    /\ [][(IsReadResponse /\ lastAnswer' = "found") =>
            /\ looper' = Append(looper, <<"onSuccess", requests[pollReq][1]>>)
            /\ pollPc' = "done"]_vars
    /\ [][lastAnswer = "found" =>
            /\ pollPc = "done"
            /\ UNCHANGED <<pollPc, reads, attempt, lastAnswer>>]_vars

\* C4 witness: the record was found at the third read (attempt 2), it is a
\* failure record, and it has been delivered through onSuccess.
C4_Witness ==
    /\ lastAnswer = "found"
    /\ attempt = 2
    /\ reads = 3
    /\ Len(delivered) = 1
    /\ delivered[1][1] = "onSuccess"
    /\ ~delivered[1][2].success

C6_TimeoutDistinctFromFailureRecord ==
    \A i \in 1..Len(Callbacks) :
        /\ Callbacks[i][1] \in {"onSuccess", "onError"}
        /\ Callbacks[i][1] = "onSuccess" =>
              /\ lastAnswer = "found"
              /\ Callbacks[i][2].requestId = pollReq
              /\ Callbacks[i][2].success \in BOOLEAN
              /\ attempt <= MaxAttempts
              /\ Len(Callbacks) = 1
        /\ Callbacks[i] = <<"onError", TimeoutMessage>> =>
              /\ lastAnswer \in {"notFound", "ioFailure"}
              /\ attempt > MaxAttempts
              /\ Len(Callbacks) = 1
        /\ lastAnswer = "found" => Callbacks[i][1] = "onSuccess"

\* C6 witness: a failure record written by a handler's catch block has been
\* delivered to the caller through onSuccess.
C6_Witness ==
    /\ Len(delivered) = 1
    /\ delivered[1][1] = "onSuccess"
    /\ delivered[1][2] = ErrorRecord([action |-> "subscribe", requestId |-> pollReq])

ChainEnded == pollPc \in {"done", "lost"}

\* C27: every call to triggerAction gives exactly one callback in total
\* (onSuccess or onError): never two, and exactly one once its chain of
\* trigger response, reads and retries has ended.
C27_ExactlyOneCallback ==
    /\ Len(Callbacks) <= 1
    /\ ChainEnded => Len(Callbacks) = 1

(***************************************************************************)
(* Claims about the feed sync engine                                       *)
(***************************************************************************)
\* the last sync of podcast id was a refresh whose fetch succeeded, and the
\* update summary on disk is the one of that refresh
LastRefresh(id) ==
    /\ lastSync[id] # None
    /\ lastSync[id][1].op = "refresh"
    /\ lastUpdate # None
    /\ lastUpdate[1].results[id] # None
    /\ lastUpdate[1].results[id][1].updated
\* the number of new episodes that refresh reported
ReportedNew(id) == lastUpdate[1].results[id][1].newEpisodes
\* a stored list without its isNew flags
Unflagged(list) == [i \in 1..Len(list) |-> [list[i] EXCEPT !.isNew = None]]
TheFeed == generatePodcastId(FeedUrlA)

\* C7: a refresh that found the stored list L and fetched the feed F leaves a
\* stored list whose identity set (guid, else url) is identities(L) union
\* identities(F), whose length is |L| plus the number of items reported as
\* new, and in which every identity of L is still present.
C7_RefreshMergesIdentities ==
    \A id \in PodcastIds :
        LastRefresh(id) =>
            LET L == lastSync[id][1].prior
                F == lastSync[id][1].items
            IN  /\ Identities(StoredEpisodes(id)) = Identities(L) \cup Identities(F)
                /\ Len(StoredEpisodes(id)) = Len(L) + ReportedNew(id)
                /\ Identities(L) \subseteq Identities(StoredEpisodes(id))

\* C7 witness: a refresh found one stored episode and fetched a feed of two
\* items, one of them known, and reported one new episode.
C7_Witness ==
    /\ LastRefresh(TheFeed)
    /\ Len(lastSync[TheFeed][1].prior) = 1
    /\ Len(lastSync[TheFeed][1].items) = 2
    /\ Identities(lastSync[TheFeed][1].prior) # Identities(lastSync[TheFeed][1].items)
    /\ ReportedNew(TheFeed) = 1
    /\ Len(StoredEpisodes(TheFeed)) = 2

\* C8: a refresh that directly follows a refresh of the same podcast which
\* fetched the same feed reports 0 new episodes and leaves the stored list
\* exactly as the first refresh left it, whatever the list the first refresh
\* started from (one written by subscribe included) and also for items
\* without a guid.
C8_SecondRefreshIsIdempotent ==
    \A id \in PodcastIds :
        (LastRefresh(id) /\ lastSync[id][1].repeat) =>
            /\ ReportedNew(id) = 0
            /\ StoredEpisodes(id) = lastSync[id][1].prior

\* C8 witness: the second of two refreshes of the same two-item feed, one
\* item without a guid, on a list that subscribe wrote and the first refresh
\* extended.
C8_Witness ==
    /\ LastRefresh(TheFeed)
    /\ lastSync[TheFeed][1].repeat
    /\ Len(lastSync[TheFeed][1].items) = 2
    /\ \E i \in 1..2 : lastSync[TheFeed][1].items[i].guid = ""
    /\ Len(StoredEpisodes(TheFeed)) = 2
    /\ StoredEpisodes(TheFeed)[1].isNew = Some(TRUE)
    /\ StoredEpisodes(TheFeed)[2].id[1] = "ep"

\* C9: a refresh removes no stored episode: the episodes stored before it
\* are, in the same order, the tail of the list stored after it, also when
\* the fetched feed no longer lists them or lists no item.
C9_RefreshKeepsStoredEpisodes ==
    \A id \in PodcastIds :
        (lastSync[id] # None /\ lastSync[id][1].op = "refresh") =>
            LET L == lastSync[id][1].prior
                stored == StoredEpisodes(id)
            IN  /\ Len(stored) >= Len(L)
                /\ Unflagged(SubSeq(stored, Len(stored) - Len(L) + 1, Len(stored)))
                       = Unflagged(L)

\* C9 witness: a refresh fetched a feed that lists a new item and no longer
\* lists the two stored episodes, which are still stored behind the new one.
C9_Witness ==
    /\ LastRefresh(TheFeed)
    /\ Len(lastSync[TheFeed][1].prior) = 2
    /\ Len(lastSync[TheFeed][1].items) = 1
    /\ Identities(lastSync[TheFeed][1].prior) \cap Identities(lastSync[TheFeed][1].items) = {}
    /\ Len(StoredEpisodes(TheFeed)) = 3

\* C17: after every successful refresh each stored episode has isNew = true
\* exactly when its identity was absent from the list stored before that
\* refresh, and isNew = false otherwise, also when the refresh found no new
\* episode.
C17_IsNewMeansAbsentBeforeThisRefresh ==
    \A id \in PodcastIds :
        LastRefresh(id) =>
            \A i \in 1..Len(StoredEpisodes(id)) :
                StoredEpisodes(id)[i].isNew =
                    Some(Identity(StoredEpisodes(id)[i])
                            \notin Identities(lastSync[id][1].prior))

\* C18: a refresh whose fetch succeeds and extracts no item reports
\* updated: true with 0 new episodes and leaves the stored list as it was.
C18_EmptyFeedIsNotAnError ==
    [][\A id \in PodcastIds :
        (/\ subscriptions # None
         /\ Registry[id] # None
         /\ \E other \in BatchFetches :
               UpdateFeeds([i \in PodcastIds |-> IF i = id THEN EmptyFetch ELSE other])) =>
            /\ lastUpdate'[1].results[id] # None
            /\ lastUpdate'[1].results[id][1].updated
            /\ lastUpdate'[1].results[id][1].newEpisodes = 0
            /\ episodes'[id] = episodes[id]]_vars

\* C18 witness: the last refresh fetched a feed without items and found two
\* stored episodes, which are the stored list; the other podcast's fetch
\* failed in the same batch.
C18_Witness ==
    /\ LastRefresh(TheFeed)
    /\ lastUpdate[1].results[generatePodcastId(FeedUrlB)] # None
    /\ ~lastUpdate[1].results[generatePodcastId(FeedUrlB)][1].updated
    /\ lastSync[TheFeed][1].items = <<>>
    /\ Len(lastSync[TheFeed][1].prior) = 2
    /\ StoredEpisodes(TheFeed) = lastSync[TheFeed][1].prior
    /\ ReportedNew(TheFeed) = 0

\* C19: an identity that is not in the prior list and occurs more than once
\* in the fetched feed is stored once, with the content of its last
\* occurrence, and counted once in the reported number of new episodes.
C19_DuplicateIdentityStoredAndCountedOnce ==
    \A id \in PodcastIds :
        LastRefresh(id) =>
            LET L == lastSync[id][1].prior
                F == lastSync[id][1].items
                stored == StoredEpisodes(id)
                added == 1..(Len(stored) - Len(L))
                fresh == Identities(F) \ Identities(L)
                last(x) == CHOOSE k \in 1..Len(F) :
                              /\ Identity(F[k]) = x
                              /\ \A m \in (k + 1)..Len(F) : Identity(F[m]) # x
            IN  /\ ReportedNew(id) = Cardinality(fresh)
                /\ \A x \in fresh :
                      /\ Cardinality({i \in added : Identity(stored[i]) = x}) = 1
                      /\ \A i \in added :
                            Identity(stored[i]) = x =>
                                stored[i].content = F[last(x)].content

\* C20: a refresh leaves every stored field of every episode of the prior
\* list as it was, whatever the fetched feed carries for the same identity;
\* only the isNew flag of a prior episode may differ.
C20_StoredFieldsAreNotUpdated ==
    \A id \in PodcastIds :
        (lastSync[id] # None /\ lastSync[id][1].op = "refresh") =>
            LET L == lastSync[id][1].prior
                stored == StoredEpisodes(id)
                shift == Len(stored) - Len(L)
            IN  \A j \in 1..Len(L) :
                    /\ shift >= 0
                    /\ stored[shift + j].id = L[j].id
                    /\ stored[shift + j].guid = L[j].guid
                    /\ stored[shift + j].url = L[j].url
                    /\ stored[shift + j].content = L[j].content
                    /\ stored[shift + j].podcastId = L[j].podcastId

\* C20 witness: the feed carries edited fields for the stored episode g1
\* and a new item; the list was saved, and g1 is stored as it was.
C20_Witness ==
    /\ LastRefresh(TheFeed)
    /\ ReportedNew(TheFeed) = 1
    /\ Len(lastSync[TheFeed][1].prior) = 1
    /\ lastSync[TheFeed][1].prior[1].guid = "g1"
    /\ lastSync[TheFeed][1].prior[1].content = "c1"
    /\ \E k \in 1..Len(lastSync[TheFeed][1].items) :
          /\ lastSync[TheFeed][1].items[k].guid = "g1"
          /\ lastSync[TheFeed][1].items[k].content = "c2"
    /\ Len(StoredEpisodes(TheFeed)) = 2
    /\ StoredEpisodes(TheFeed)[2].content = "c1"
    /\ StoredEpisodes(TheFeed)[2].isNew = Some(FALSE)

\* C21: after a successful sync the stored snapshot holds the channel
\* metadata just extracted from the feed, except that a caller-supplied
\* title (PODCAST_TITLE on subscribe, the subscription's stored title on
\* refresh) replaces the extracted title; for the snapshot written by
\* subscribe as well as the one written by refresh.
C21_SnapshotKeepsTitleOverride ==
    [][/\ \A titleEnv \in Titles, channel \in Channels, items \in SmallFeeds :
            Subscribe(FeedUrlA, "", titleEnv, channel, items) =>
                feeds'[TheFeed][1].channel =
                    [channel EXCEPT !.title = IF titleEnv # "" THEN titleEnv ELSE @]
       /\ \A f \in Fetches(Channels, SmallFeeds) \ {None} :
            (Registry[TheFeed] # None /\ UpdateFeeds([id \in PodcastIds |-> f])) =>
                /\ feeds'[TheFeed][1].channel.title = Registry[TheFeed][1].title
                /\ feeds'[TheFeed][1].channel.author = f[1].channel.author
                /\ f[1].channel.imageUrl # "" =>
                      feeds'[TheFeed][1].channel.imageUrl = f[1].channel.imageUrl]_vars

\* C26: when an episode is stored without a guid (its identity is its url)
\* and a refresh fetches an item of the same url that now carries a guid
\* not yet stored, the refresh reports the item as new and the stored list
\* then holds two entries for the episode: the new one keyed by the guid,
\* and the prior one keyed by the url.
C26_GuidAddedLaterDuplicates ==
    \A id \in PodcastIds :
        LastRefresh(id) =>
            LET L == lastSync[id][1].prior
                F == lastSync[id][1].items
                stored == StoredEpisodes(id)
            IN  \A j \in 1..Len(L), k \in 1..Len(F) :
                    (/\ L[j].guid = ""
                     /\ F[k].url = L[j].url
                     /\ F[k].guid # ""
                     /\ \A m \in 1..Len(L) : L[m].guid # F[k].guid) =>
                        /\ ReportedNew(id) >= 1
                        /\ Len(stored) = Len(L) + ReportedNew(id)
                        /\ \E a \in 1..ReportedNew(id) :
                              /\ stored[a].guid = F[k].guid
                              /\ stored[a].url = F[k].url
                              /\ stored[a].isNew = Some(TRUE)
                        /\ stored[ReportedNew(id) + j].guid = ""
                        /\ stored[ReportedNew(id) + j].url = F[k].url
                        /\ stored[ReportedNew(id) + j].id = L[j].id

\* C26 witness: subscribe stored the episode at u1 without a guid; the
\* refresh fetched u1 with guid g1 and the list now holds both entries.
C26_Witness ==
    /\ LastRefresh(TheFeed)
    /\ Len(lastSync[TheFeed][1].prior) = 1
    /\ lastSync[TheFeed][1].prior[1].guid = ""
    /\ lastSync[TheFeed][1].prior[1].id[1] = "ep"
    /\ Len(lastSync[TheFeed][1].items) = 1
    /\ lastSync[TheFeed][1].items[1].guid = "g1"
    /\ lastSync[TheFeed][1].items[1].url = lastSync[TheFeed][1].prior[1].url
    /\ ReportedNew(TheFeed) = 1
    /\ Len(StoredEpisodes(TheFeed)) = 2
    /\ StoredEpisodes(TheFeed)[1].guid = "g1"
    /\ StoredEpisodes(TheFeed)[2].guid = ""
    /\ StoredEpisodes(TheFeed)[1].url = StoredEpisodes(TheFeed)[2].url

\* C28: through subscribe, re-subscribe, refresh and unsubscribe the
\* identity set of a podcast's stored episode list never shrinks: every
\* identity stored before a step is stored after it.
C28_IdentitySetNeverShrinks ==
    [][\A id \in PodcastIds :
        Identities(StoredEpisodes(id)) \subseteq
            Identities(IF episodes'[id] = None THEN <<>> ELSE episodes'[id][1])]_vars

\* C29: after a successful subscribe or refresh of a podcast the
\* episodeCount of its Subscription record and of its snapshot is the
\* length of its stored episode list.
C29_EpisodeCountIsListLength ==
    \A id \in PodcastIds :
        (lastSync[id] # None /\ Registry[id] # None /\ feeds[id] # None) =>
            /\ Registry[id][1].episodeCount = Len(StoredEpisodes(id))
            /\ feeds[id][1].episodeCount = Len(StoredEpisodes(id))

\* C30: when the refresh of a subscription fails inside a batch, the
\* subscription's record (every field, lastUpdated and episodeCount
\* included), its snapshot and its episode list are as they were, and the
\* batch still processes every other subscription.
C30_FailedRefreshLeavesSubscriptionUntouched ==
    [][\A id \in PodcastIds :
        (/\ subscriptions # None
         /\ Registry[id] # None
         /\ \E other \in Fetches({DefaultChannel}, SmallFeeds) :
               UpdateFeeds([i \in PodcastIds |-> IF i = id THEN None ELSE other])) =>
            /\ subscriptions'[1][id] = Registry[id]
            /\ feeds'[id] = feeds[id]
            /\ episodes'[id] = episodes[id]
            /\ lastUpdate'[1].results[id] = Some(RefreshFailure)
            /\ \A o \in PodcastIds \ {id} :
                  Registry[o] # None => lastUpdate'[1].results[o] # None]_vars

(***************************************************************************)
(* Claims about the feed fetch                                             *)
(***************************************************************************)
\* the step is the response callback of a GET of the fetch
IsFetchResponse == fetch.pc = "get" /\ fetch' # fetch /\ fetch'.error # "network"

C25_NonSuccessStatusIsAFailure ==
    (fetch.pc = "handled" /\ fetch.error = "" /\ fetch.status \notin 200..299) =>
        /\ fetch.outcome = "failed"
        /\ fetch.reported = fetch.status

(***************************************************************************)
(* Claims about the subscription registry                                  *)
(***************************************************************************)
\* the keys of the records of the registry that hold feedUrl
RecordsOf(registry, feedUrl) ==
    {id \in PodcastIds : registry[id] # None /\ registry[id][1].feedUrl = feedUrl}
\* the step is a subscribe to feedUrl without an explicit podcast id, and an
\* earlier such subscribe has left its record in the registry
SubscribesAgain(feedUrl) ==
    /\ Registry[generatePodcastId(feedUrl)] # None
    /\ \E titleEnv \in Titles, items \in SmallFeeds :
          Subscribe(feedUrl, "", titleEnv, DefaultChannel, items)

\* C10: a second subscribe to the same feedUrl without an explicit podcast
\* id writes the record of the first (same podcast id), adds no record for
\* that feed (exactly one, when no subscribe gave the feed an explicit id),
\* and leaves the record's subscribedAt as the first subscribe wrote it.
C10_ResubscribeKeepsIdAndSubscribedAt ==
    [][\A feedUrl \in FeedUrls :
        SubscribesAgain(feedUrl) =>
            LET id == generatePodcastId(feedUrl)
                before == Registry
                after == subscriptions'[1]
            IN  /\ after[id] # None
                /\ after[id][1].id = before[id][1].id
                /\ after[id][1].feedUrl = feedUrl
                /\ RecordsOf(after, feedUrl) = RecordsOf(before, feedUrl)
                /\ (RecordsOf(before, feedUrl) \cap ExplicitIds = {}) =>
                       RecordsOf(after, feedUrl) = {id}
                /\ after[id][1].subscribedAt = before[id][1].subscribedAt]_vars

\* C10 witness: the registry holds one record for the feed, subscribed at
\* time 0 and written again by a later subscribe.
C10_Witness ==
    /\ RecordsOf(Registry, FeedUrlA) = {TheFeed}
    /\ Registry[TheFeed][1].subscribedAt = 0
    /\ Registry[TheFeed][1].lastUpdated > 0
    /\ lastSync[TheFeed] # None
    /\ lastSync[TheFeed][1].op = "subscribe"

\* the step is an unsubscribe of podcast id
Unsubscribes(id) ==
    \E feedUrl \in FeedUrls, podcastIdEnv \in ExplicitIds \cup {""} :
        /\ id = (IF podcastIdEnv # "" THEN podcastIdEnv ELSE generatePodcastId(feedUrl))
        /\ Unsubscribe(feedUrl, podcastIdEnv)

\* C11: an unsubscribe removes the Subscription record of its podcast id and
\* nothing else: the episode list and the feed snapshot of that id, and every
\* record, list and snapshot of every other id, are as they were.
C11_UnsubscribeRemovesOnlyTheRecord ==
    [][\A id \in PodcastIds :
        Unsubscribes(id) =>
            /\ subscriptions'[1][id] = None
            /\ \A other \in PodcastIds \ {id} : subscriptions'[1][other] = Registry[other]
            /\ episodes' = episodes
            /\ feeds' = feeds]_vars

\* C11 witness: a podcast has been unsubscribed while another one is
\* subscribed; its record is gone, its episode list and snapshot are stored.
C11_Witness ==
    /\ subscriptions # None
    /\ Registry[TheFeed] = None
    /\ Registry[generatePodcastId(FeedUrlB)] # None
    /\ episodes[TheFeed] # None
    /\ Len(StoredEpisodes(TheFeed)) = 1
    /\ feeds[TheFeed] # None

\* C12: after a subscribe on empty prior state the stored list holds every
\* extracted item in source order, each tagged isNew = true, and the
\* record's episodeCount is their number.
C12_FirstSyncTagsEveryEpisodeNew ==
    \A id \in PodcastIds :
        (lastSync[id] # None /\ lastSync[id][1].op = "subscribe"
            /\ Registry[id] # None /\ lastUpdate = None) =>
            LET F == lastSync[id][1].items
                stored == StoredEpisodes(id)
            IN  /\ Len(stored) = Len(F)
                /\ Registry[id][1].episodeCount = Len(F)
                /\ \A i \in 1..Len(F) :
                      /\ stored[i].guid = F[i].guid
                      /\ stored[i].url = F[i].url
                      /\ stored[i].content = F[i].content
                      /\ stored[i].isNew = Some(TRUE)

\* C13: a refresh that finds new items stores the new items in feed order,
\* tagged isNew = true, followed by the whole prior list in its prior order,
\* tagged isNew = false, and reports the number of new items.
C13_NewFirstThenPriorInOrder ==
    \A id \in PodcastIds :
        (LastRefresh(id) /\ ReportedNew(id) > 0) =>
            LET L == lastSync[id][1].prior
                F == lastSync[id][1].items
                fresh == SelectSeq(F, LAMBDA it :
                            \A j \in 1..Len(L) : Identity(L[j]) # Identity(it))
                stored == StoredEpisodes(id)
            IN  /\ ReportedNew(id) = Len(fresh)
                /\ Len(stored) = Len(fresh) + Len(L)
                /\ \A i \in 1..Len(fresh) :
                      /\ stored[i].guid = fresh[i].guid
                      /\ stored[i].url = fresh[i].url
                      /\ stored[i].content = fresh[i].content
                      /\ stored[i].isNew = Some(TRUE)
                /\ \A j \in 1..Len(L) :
                      stored[Len(fresh) + j] = [L[j] EXCEPT !.isNew = Some(FALSE)]

\* C13 witness: the feed lists an item without guid before the stored
\* episode g1; the refresh reported one new episode and stored it first.
C13_Witness ==
    /\ LastRefresh(TheFeed)
    /\ ReportedNew(TheFeed) = 1
    /\ Len(lastSync[TheFeed][1].prior) = 1
    /\ Len(lastSync[TheFeed][1].items) = 2
    /\ lastSync[TheFeed][1].items[2].guid = "g1"
    /\ Len(StoredEpisodes(TheFeed)) = 2
    /\ StoredEpisodes(TheFeed)[1].guid = ""
    /\ StoredEpisodes(TheFeed)[1].isNew = Some(TRUE)
    /\ StoredEpisodes(TheFeed)[2].guid = "g1"
    /\ StoredEpisodes(TheFeed)[2].isNew = Some(FALSE)

\* the step is the unsubscribe handler run for podcast id
UnsubscribeRuns(id) ==
    \E feedUrl \in FeedUrls, podcastIdEnv \in ExplicitIds \cup {""} :
        /\ id = (IF podcastIdEnv # "" THEN podcastIdEnv ELSE generatePodcastId(feedUrl))
        /\ UnsubscribeMain(feedUrl, podcastIdEnv)

\* C32: unsubscribe is idempotent: an unsubscribe of a podcast id that is
\* not (or no longer) in the registry writes a success ResultRecord and
\* leaves the registry's subscriptions, the snapshots and the episode lists
\* as they were (a registry file that exists is rewritten with the same
\* content), so a second unsubscribe leaves what the first one left.
C32_UnsubscribeIsIdempotent ==
    [][\A id \in PodcastIds :
        (Registry[id] = None /\ UnsubscribeRuns(id)) =>
            /\ requests'[issued + 1] # None
            /\ requests'[issued + 1][1].success
            /\ requests'[issued + 1][1].action = "unsubscribe"
            /\ requests'[issued + 1][1].podcastId = id
            /\ requests'[issued + 1][1].requestId = issued + 1
            /\ subscriptions'[1] = Registry
            /\ subscriptions # None => subscriptions' = subscriptions
            /\ UNCHANGED <<feeds, episodes>>]_vars

\* C32 witness: a subscribed podcast has been unsubscribed twice: both
\* requests have their success record, the first with the podcast's title,
\* the second with none, and the other podcast is still subscribed.
C32_Witness ==
    /\ lastSync[TheFeed] # None
    /\ Registry[TheFeed] = None
    /\ Registry[generatePodcastId(FeedUrlB)] # None
    /\ \A r \in {1, 2} :
          /\ requests[r] # None
          /\ requests[r][1].success
          /\ requests[r][1].action = "unsubscribe"
          /\ requests[r][1].podcastId = TheFeed
    /\ requests[1][1].title = "My title"
    /\ requests[2][1].title = "Unknown"

(***************************************************************************)
(* Claims about concurrent worker invocations                              *)
(***************************************************************************)
\* the podcast id process p works on
TargetOf(p) == generatePodcastId(invocations[p].feedUrl)
\* the registry shows the operation process p has finished
Reflected(p) ==
    IF invocations[p].op = "subscribe"
    THEN Registry[TargetOf(p)] # None
    ELSE Registry[TargetOf(p)] = None

\* the step is the final registry write of the batch
IsBatchSave == batch.pc = "loaded" /\ batch'.pc = "done"

\* C31: a subscribe or unsubscribe that completes while a batch refresh is
\* in progress is not undone by the batch: the batch's final registry write
\* leaves subscribed exactly the podcasts that are subscribed when it
\* writes, so a podcast subscribed since the batch loaded the registry is
\* still in it and a podcast unsubscribed since is still absent.
C31_BatchKeepsConcurrentChanges ==
    [][IsBatchSave =>
        \A id \in PodcastIds :
            (subscriptions'[1][id] # None) <=> (Registry[id] # None)]_vars

\* C14: when two invocations on different podcast ids (two subscribes, or
\* a subscribe and an unsubscribe) have both finished, however their steps
\* were interleaved, the registry reflects both operations.
C14_ConcurrentInvocationsBothReflected ==
    (/\ \A p \in Procs : invocations[p].pc = "done"
     /\ TargetOf(1) # TargetOf(2)) =>
        \A p \in Procs : Reflected(p)

====
